---- MODULE Spec2Model ----
(***************************************************************************)
(* Ticket lifecycle of the sentiment watchdog: the ingestion connectors    *)
(* (email_agent.py, form_agent.py) insert documents with status 'new' into *)
(* the raw_tickets collection, and SentimentProcessingAgent                *)
(* (processing_agent.py) fetches batches of 'new' tickets, cleans the      *)
(* message the classifier under the retry decorator and writes the  *)
(* status back.                                                            *)
(*                                                                         *)
(* Encoding.  A text is a sequence of one-character strings.  A Firestore  *)
(* document is a function from field names to values, so "the document     *)
(* has field f" is  f \in DOMAIN doc.  A confidence is an integer number   *)
(* of hundredths (0.5 is 50, 1.0 is 100).  A store write either is applied *)
(* or raises and leaves the document unchanged.                            *)
(***************************************************************************)
EXTENDS Integers, Sequences, FiniteSets, TLC

VARIABLES
    store,            \* raw_tickets: the documents in the order of their creation
    clock,            \* the server's time: the number of documents created so far
    running,          \* self.running
    pc,               \* position of the worker in run_continuous / process_tickets_batch
    tickets,          \* local `tickets` of process_tickets_batch
    idx,              \* position of the for loop in `tickets`
    attempt,          \* attempt number of the retry decorator for the current ticket
    sentiment_result, \* local `sentiment_result`
    processed_count,  \* local `processed_count`
    error_count,      \* local `error_count`
    cur,              \* history: what happened to the ticket handled last
    waited,           \* the time run_continuous has slept since the last batch began
    took,             \* the time the last batch has slept, up to the interval
    fetch_failed,     \* history: the query of the last get_pending_tickets raised
    last_call,        \* history: the last classifier invocation of the batch
    peer,             \* a second worker process: its position and its locals
    df,               \* dashboard: the data frame of the tickets loaded
    view,             \* dashboard: what the render functions have put on the page
    cleaned           \* a text and the results of clean_text applied to it in turn

vars == <<store, clock, running, pc, tickets, idx, attempt, sentiment_result,
          processed_count, error_count, cur, waited, took, fetch_failed,
          last_call, peer, df, view, cleaned>>

\* the state of the processes that do not run in a specification
other_vars == <<peer, df, view, cleaned>>

-----------------------------------------------------------------------------
(* Bounds of the model *)

\* documents ever inserted into raw_tickets
MaxTickets == 2

(* Program constants *)

\* self.batch_size, with PROCESSING_BATCH_SIZE=2 in the environment
BatchSize == 2

\* len(cleaned_message) < 10
MinMessageLen == 10

\* @retry(stop_max_attempt_number=3, ...)
StopMaxAttemptNumber == 3

\* result['keywords'][:5]
MaxKeywords == 5

\* len(data['message']) > 10000
MaxFormMessageLen == 10000

\* self.processing_interval, with PROCESSING_INTERVAL=3 in the environment
ProcessingInterval == 3

\* wait_exponential_multiplier=1000 of the retry decorator, in seconds
WaitExponentialMultiplier == 1

\* time.sleep(1) of the wait between two batches
NapSeconds == 1

\* time.sleep(60) after an exception in the loop of run_continuous
CooldownSeconds == 60

\* time.sleep(2) after a processed ticket
PacingSeconds == 2

-----------------------------------------------------------------------------
(* Sequence helpers *)

Min(a, b) == IF a < b THEN a ELSE b

Max(a, b) == IF a > b THEN a ELSE b

\* s[:n]
Take(s, n) == SubSeq(s, 1, Min(n, Len(s)))

\* s[n:]  (0-based n as in Python)
Drop(s, n) == SubSeq(s, n + 1, Len(s))

\* s.startswith(p)
StartsWith(s, p) == Len(s) >= Len(p) /\ SubSeq(s, 1, Len(p)) = p

-----------------------------------------------------------------------------
(* clean_text *)

\* the characters \s matches
Whitespace == {" ", "\t", "\n"}

RECURSIVE LStrip(_)
LStrip(s) == IF s # <<>> /\ Head(s) \in Whitespace THEN LStrip(Tail(s)) ELSE s

RECURSIVE RStrip(_)
RStrip(s) ==
    IF s # <<>> /\ s[Len(s)] \in Whitespace THEN RStrip(SubSeq(s, 1, Len(s) - 1)) ELSE s

\* text.strip()
Strip(s) == RStrip(LStrip(s))

\* length of the maximal run of characters of class cls at the head of s
RECURSIVE RunLen(_, _)
RunLen(s, cls) == IF s # <<>> /\ Head(s) \in cls THEN 1 + RunLen(Tail(s), cls) ELSE 0

\* re.sub(cls{min,}, rep, s): every maximal run of at least min characters of cls
\* is replaced by rep
RECURSIVE SubRuns(_, _, _, _)
SubRuns(s, cls, min, rep) ==
    IF s = <<>> THEN <<>>
    ELSE LET n == RunLen(s, cls) IN
         IF n >= min THEN rep \o SubRuns(Drop(s, n), cls, min, rep)
         ELSE IF n > 0 THEN Take(s, n) \o SubRuns(Drop(s, n), cls, min, rep)
         ELSE <<Head(s)>> \o SubRuns(Tail(s), cls, min, rep)

\* the first line of s (up to, not including, the first "\n")
RECURSIVE FirstLine(_)
FirstLine(s) ==
    IF s = <<>> \/ Head(s) = "\n" THEN <<>> ELSE <<Head(s)>> \o FirstLine(Tail(s))

\* re.sub(r'^(p1|p2|..).*$', '', s, flags=re.MULTILINE): a line that starts with
\* one of the prefixes is emptied, its line break stays
RECURSIVE SubLines(_, _)
SubLines(s, prefixes) ==
    LET line == FirstLine(s)
        rest == Drop(s, Len(line))
        kept == IF \E p \in prefixes : StartsWith(line, p) THEN <<>> ELSE line
    IN  IF rest = <<>> THEN kept
        ELSE kept \o <<"\n">> \o SubLines(Tail(rest), prefixes)

HeaderPrefixes ==
    { <<"F","r","o","m",":">>, <<"T","o",":">>,
      <<"S","u","b","j","e","c","t",":">>, <<"D","a","t","e",":">> }

SignaturePrefixes == { <<"-","-">> }

\* the ASCII characters the URL character class does not contain (with the
\* double quote and the backquote, which no text of the model holds)
NonUrlChars == Whitespace \cup {"#", "{", "|", "}", "~"}

\* length of the maximal run of URL characters at the head of s
RECURSIVE UrlRunLen(_)
UrlRunLen(s) == IF s # <<>> /\ Head(s) \notin NonUrlChars THEN 1 + UrlRunLen(Tail(s)) ELSE 0

\* length of the match of http[s]?://(class)+ at the head of s, 0 when none
UrlMatchLen(s) ==
    LET http  == <<"h","t","t","p">>
        sep   == <<":","/","/">>
        after(k) == UrlRunLen(Drop(s, k))
    IN  IF ~StartsWith(s, http) THEN 0
        ELSE IF StartsWith(Drop(s, 4), <<"s">> \o sep) /\ after(8) > 0 THEN 8 + after(8)
        ELSE IF StartsWith(Drop(s, 4), sep) /\ after(7) > 0 THEN 7 + after(7)
        ELSE 0

\* re.sub(url pattern, '', s)
RECURSIVE SubUrls(_)
SubUrls(s) ==
    IF s = <<>> THEN <<>>
    ELSE LET n == UrlMatchLen(s) IN
         IF n > 0 THEN SubUrls(Drop(s, n)) ELSE <<Head(s)>> \o SubUrls(Tail(s))
\* mutant: the text is not cleaned
clean_text_raw(text) == text

clean_text(text) ==
    IF text = <<>> THEN <<>>
    ELSE LET t1 == SubRuns(Strip(text), Whitespace, 1, <<" ">>)
             t2 == SubLines(t1, HeaderPrefixes)
             t3 == SubLines(t2, SignaturePrefixes)
             t4 == SubUrls(t3)
             t5 == SubRuns(t4, {"."}, 3, <<".",".",".">>)
             t6 == SubRuns(t5, {"!"}, 2, <<"!">>)
             t7 == SubRuns(t6, {"?"}, 2, <<"?">>)
         IN  Strip(t7)

-----------------------------------------------------------------------------
(* Texts and documents *)

TextFix    == <<"f","i","x"," ","i","t"," ","n","o","w","!">>
TextPadded == <<"n","o","!","!","!","!","!","!","!","!","!","!">>
TextHeader == <<"F","r","o","m",":"," ","b","o","b","@","x">>
TextBlank  == <<" "," ">>

\* bodies of the mails found UNSEEN in the inbox
EmailBodies == {TextFix, TextHeader, TextBlank, <<" ">> \o TextFix}

\* 'message' values of the JSON posted to the webhooks
FormMessages == {TextPadded, TextBlank}

\* the form_type the four webhook handlers pass to store_form_submission
FormTypes == {"Contact", "Feedback", "Support", "Custom"}

\* A document is named in the model by its position in store, the order of
\* creation.  Its Firestore id is auto-generated, so the order of the ids,
\* which is the order of a query without order_by, is any order.

\* ticket_ref.update(delta) / dict.update: the fields of delta replace or extend doc
\* mutant: set() in the place of update(): the document is replaced
Merge_replace(doc, delta) == delta

\* the document after update(delta)
Merge(doc, delta) ==
    [k \in DOMAIN doc \cup DOMAIN delta |-> IF k \in DOMAIN delta THEN delta[k] ELSE doc[k]]
\* mutant: the test without strip()
IsBlank_empty(text) == text = <<>>

\* not text.strip()
IsBlank(text) == Strip(text) = <<>>

\* mutant: only the size of the message is validated
validate_form_data_size(message) == ~(Len(message) > MaxFormMessageLen)

\* validate_form_data for a JSON object with the given 'message'
validate_form_data(message) ==
    ~IsBlank(message) /\ ~(Len(message) > MaxFormMessageLen)

\* the document store_email_in_firebase adds
EmailDoc(body, now) ==
    [source |-> "Email", timestamp |-> now, message |-> body,
     sender |-> "customer@mail", status |-> "new"]

\* the document store_form_submission adds
FormDoc(message, form_type, now) ==
    [source |-> "Form_" \o form_type, timestamp |-> now, message |-> message,
     sender |-> "unknown@unknown.com", status |-> "new"]

\* a document with status 'new' that a writer of the collection other than the
\* two connectors added (the worker provides for it in lines 259-265): its
\* message is blank, or it has no message field at all
ForeignDocs(now) ==
    { [timestamp |-> now, message |-> TextBlank, status |-> "new"],
      [timestamp |-> now, status |-> "new"] }

-----------------------------------------------------------------------------
(* analyze_sentiment_with_gemini *)

\* JSON values: a string, a number (in hundredths), null, a list, an integer
\* too large for a float, NaN
JStr(x)  == [t |-> "str", s |-> x]
JNum(n)  == [t |-> "num", n |-> n]
JList(l) == [t |-> "list", l |-> l]
JNull    == [t |-> "null"]
JBig     == [t |-> "big"]
JNaN     == [t |-> "nan"]

\* float(x) for a string x: the value in hundredths, or ValueError
NumericStrings == {"0.7", "1e3"}

ParseFloat(x) == IF x = "0.7" THEN 70 ELSE 100000

\* float(v): [ok, n] or the exception it raises
Float(v) ==
    CASE v.t = "num" -> [ok |-> TRUE, n |-> v.n]
      [] v.t = "str" -> IF v.s \in NumericStrings
                        THEN [ok |-> TRUE, n |-> ParseFloat(v.s)]
                        ELSE [ok |-> FALSE, exc |-> "ValueError"]
      [] v.t = "big" -> [ok |-> FALSE, exc |-> "OverflowError"]
      [] v.t = "nan" -> [ok |-> TRUE, n |-> 100]  \* NaN, by what Clamp makes of it
      [] OTHER       -> [ok |-> FALSE, exc |-> "TypeError"]
\* mutant: the confidence is not clamped
Clamp_none(n) == n

\* max(0.0, min(1.0, x)); min(1.0, x) is 1.0 for a NaN x, which Float gives as 100
Clamp(n) == Max(0, Min(100, n))

required_keys == {"sentiment", "summary", "confidence", "keywords"}

valid_sentiments == {"anger", "confusion", "delight", "neutral"}

\* the result for a message too short to analyse
TooShortResult ==
    [sentiment |-> "neutral", summary |-> "Message too short for analysis",
     confidence |-> 50, keywords |-> <<>>]

\* lines 164-189: validation of the decoded response `result`
\* [ok |-> TRUE, result] or [ok |-> FALSE, exc]
Validate(result) ==
    IF result.t # "obj" THEN [ok |-> FALSE, exc |-> "TypeError"]
    ELSE IF ~(required_keys \subseteq DOMAIN result.o) THEN [ok |-> FALSE, exc |-> "ValueError"]
    ELSE LET o == result.o
             sentiment == IF o.sentiment.t = "str" /\ o.sentiment.s \in valid_sentiments
                          THEN o.sentiment.s ELSE "neutral"
             f == Float(o.confidence)
             keywords == IF o.keywords.t = "list" THEN o.keywords.l ELSE <<>>
         IN  IF ~f.ok /\ f.exc \notin {"ValueError", "TypeError"}
             THEN [ok |-> FALSE, exc |-> f.exc]
             ELSE [ok |-> TRUE,
                   result |-> [sentiment  |-> sentiment,
                               summary    |-> o.summary.s,
                               confidence |-> IF f.ok THEN Clamp(f.n) ELSE 50,
                               keywords   |-> Take(keywords, MaxKeywords)]]
\* mutant: a fourth attempt is made
ShouldStop_late(attempt_number) == attempt_number > StopMaxAttemptNumber

\* @retry(stop_max_attempt_number=3): no further attempt after the third
ShouldStop(attempt_number) == attempt_number >= StopMaxAttemptNumber
\* mutant: only transport and JSON decode errors are retried
RetryOnException_transport(exc) == exc \in {"TransportError", "JSONDecodeError"}

\* @retry without retry_on_exception: every exception is retried
RetryOnException(exc) == TRUE

\* one execution of the decorated function body on a response of the model:
\* [ok |-> TRUE, result] or [ok |-> FALSE, exc]
AnalyzeOnce(resp) ==
    CASE resp.kind = "transport" -> [ok |-> FALSE, exc |-> "TransportError"]
      [] resp.kind = "empty"     -> [ok |-> FALSE, exc |-> "EmptyResponse"]
      [] resp.kind = "badjson"   -> [ok |-> FALSE, exc |-> "JSONDecodeError"]
      [] OTHER                   -> Validate(resp.value)

\* a decoded JSON object
Obj(sentiment, summary, confidence, keywords) ==
    [t |-> "obj", o |-> [sentiment |-> sentiment, summary |-> JStr(summary),
                         confidence |-> confidence, keywords |-> keywords]]

Json(v) == [kind |-> "json", value |-> v]

\* what model.generate_content can answer
Responses ==
    { [kind |-> "transport"], [kind |-> "empty"], [kind |-> "badjson"],
      Json(Obj(JStr("anger"), "outage", JNum(95), JList(<<"down", "fix">>))),
      Json(Obj(JStr("rage"), "furious", JNum(150),
               JList(<<"k1", "k2", "k3", "k4", "k5", "k6", "k7">>))),
      Json(Obj(JStr("Anger"), "furious", JStr("1e3"),
               JList(<<"k1", "k2", "k3", "k4", "k5", "k6">>))),
      Json(Obj(JNull, "furious", JNaN, JList(<<"k1", "k2", "k3", "k4", "k5">>))),
      Json(Obj(JStr("delight"), "pleased", JStr("high"), JStr("thanks"))),
      Json(Obj(JStr("delight"), "pleased", JNull, JNull)),
      Json(Obj(JStr("confusion"), "setup", JNum(0 - 20), JList(<<>>))),
      Json(Obj(JStr("confusion"), "setup", JStr("0.7"), JList(<<"how">>))),
      Json(Obj(JStr("anger"), "outage", JBig, JList(<<"down">>))),
      Json([t |-> "obj", o |-> [sentiment |-> JStr("anger"), summary |-> JStr("outage"),
                                keywords |-> JList(<<"down">>)]]),
      Json([t |-> "obj", o |-> [summary |-> JStr("outage")]]),
      Json(JList(<<"anger">>)) }

-----------------------------------------------------------------------------
(* The store operations of the worker *)

\* sentiment_data=None
NoData == <<>>
\* mutant: the query has no status filter
PendingIds_all(s) == DOMAIN s

\* mutant: the query also takes the tickets in error
PendingIds_requeue(s) == { i \in DOMAIN s : s[i].status \in {"new", "error"} }

\* the documents of the query  where('status', '==', 'new')
PendingIds(s) == { i \in DOMAIN s : s[i].status = "new" }

\* the sequences of n distinct elements of S
RECURSIVE Arrangements(_, _)
Arrangements(S, n) ==
    IF n = 0 THEN { <<>> }
    ELSE UNION { { <<x>> \o rest : rest \in Arrangements(S \ {x}, n - 1) } : x \in S }

\* doc.to_dict() with ticket_data['id'] = doc.id
TicketData(s, i) == Merge(s[i], [id |-> i])

\* mutant: the query without limit(batch_size)
get_pending_tickets_nolimit(s) ==
    LET pending == PendingIds(s)
        n       == Cardinality(pending)
    IN  { [k \in 1..n |-> TicketData(s, ids[k])] : ids \in Arrangements(pending, n) }

\* get_pending_tickets when the query succeeds: the results the query
\* where('status', '==', 'new').limit(batch_size) can give, the first
\* batch_size pending documents in the order of their ids
get_pending_tickets(s) ==
    LET pending == PendingIds(s)
        n       == Min(BatchSize, Cardinality(pending))
    IN  { [k \in 1..n |-> TicketData(s, ids[k])] : ids \in Arrangements(pending, n) }

\* firestore.SERVER_TIMESTAMP as update_ticket_status writes it: the worker
\* never reads the time the server puts in its place
SERVER_TIMESTAMP == "SERVER_TIMESTAMP"

\* mutant: the keywords are left out of the update
UpdateData_nokeywords(status, sentiment_data) ==
    IF sentiment_data # NoData
    THEN [status |-> status, processed_timestamp |-> SERVER_TIMESTAMP,
          sentiment  |-> sentiment_data.sentiment,
          summary    |-> sentiment_data.summary,
          confidence |-> sentiment_data.confidence]
    ELSE [status |-> status, processed_timestamp |-> SERVER_TIMESTAMP]

\* update_data of update_ticket_status
UpdateData(status, sentiment_data) ==
    IF sentiment_data # NoData
    THEN [status |-> status, processed_timestamp |-> SERVER_TIMESTAMP,
          sentiment  |-> sentiment_data.sentiment,
          summary    |-> sentiment_data.summary,
          confidence |-> sentiment_data.confidence,
          keywords   |-> sentiment_data.keywords]
    ELSE [status |-> status, processed_timestamp |-> SERVER_TIMESTAMP]

\* update_ticket_status when ticket_ref.update succeeds
update_ticket_status(s, ticket_id, status, sentiment_data) ==
    [s EXCEPT ![ticket_id] = Merge(@, UpdateData(status, sentiment_data))]

\* the argument of the time.sleep call run_continuous is in (0: in none)
SleepInProgress(at) ==
    CASE at = "nap"      -> NapSeconds
      [] at = "cooldown" -> CooldownSeconds
      [] OTHER           -> 0

\* ticket.get('message', '')
MessageOf(ticket) == IF "message" \in DOMAIN ticket THEN ticket.message ELSE <<>>
\* mutant: an exception of the handler's write ends the batch
AfterHandler_abort(write_ok) == IF write_ok THEN "ticket" ELSE "sleep"

\* lines 285-289: where the for loop goes on after the handler's write, whose
\* own exception the bare except drops
AfterHandler(write_ok) == "ticket"

\* mutant: an exception that escapes the body ends run_continuous
AfterBody_crash(raised) == IF raised THEN "stopped" ELSE "sleep"

\* lines 308-319: where run_continuous goes on after process_tickets_batch:
\* the wait between two batches, or the except clause and its time.sleep(60)
AfterBody(raised) == IF raised THEN "cooldown" ELSE "sleep"

-----------------------------------------------------------------------------
(* History of the ticket the worker handles *)

\* id: the ticket (0: none); n: the classifier invocations made for it;
\* td: every invocation so far failed with a transport or a JSON decode error;
\* missing: a decoded response lacked a required key; again: the classifier was
\* invoked after such a response; wfail: a store write for it raised;
\* done: its iteration of the for loop is over
NoTicket ==
    [id |-> 0, n |-> 0, td |-> TRUE, missing |-> FALSE, again |-> FALSE,
     wfail |-> FALSE, done |-> FALSE]

\* a decoded JSON object without one of the required keys
LacksKey(resp) ==
    /\ resp.kind = "json"
    /\ resp.value.t = "obj"
    /\ ~(required_keys \subseteq DOMAIN resp.value.o)

\* the history after one more invocation, answered by resp
Invoked(h, resp) ==
    [h EXCEPT !.n = @ + 1,
              !.td = @ /\ resp.kind \in {"transport", "badjson"},
              !.missing = @ \/ LacksKey(resp),
              !.again = @ \/ h.missing]

\* the second worker at the top of its loop, no ticket in hand
NoPeer ==
    [pc |-> "loop", tickets |-> <<>>, idx |-> 1, attempt |-> 0,
     sentiment_result |-> NoData, id |-> 0, n |-> 0]

\* no text given to clean_text
NoText == [text |-> <<>>, out |-> <<>>]

\* no data frame loaded
NoFrame == <<>>

\* nothing on the page: the render functions that have run, and what each of
\* them and main have written (<<>>: nothing)
NoView == [done |-> {}, overview |-> <<>>, trends |-> <<>>, alerts |-> <<>>,
           info |-> <<>>, filtered |-> <<>>, sources |-> <<>>, stats |-> <<>>]

\* 2 to the power n
RECURSIVE Pow2(_)
Pow2(n) == IF n = 0 THEN 1 ELSE 2 * Pow2(n - 1)

\* the wait of the retry decorator after the failed attempt attempt_number:
\* wait_exponential_multiplier * 2 ^ attempt_number
RetryWait(attempt_number) == WaitExponentialMultiplier * Pow2(attempt_number)

\* the time the batch has slept after time.sleep(seconds); what is kept is
\* whether it has reached the interval
BatchSlept(t, seconds) == Min(t + seconds, ProcessingInterval)

\* no classifier invocation yet in this batch
NoCall == [id |-> 0, since |-> 0]

\* the classifier is invoked for ticket_id
Called(ticket_id) == [id |-> ticket_id, since |-> 0]

\* time.sleep(seconds) after the last invocation; what is kept is whether the
\* time since then has reached the pacing delay
Slept(c, seconds) ==
    IF c.id = 0 THEN c ELSE [c EXCEPT !.since = Min(@ + seconds, PacingSeconds)]

-----------------------------------------------------------------------------
(* Initial state: an empty collection, the worker at the top of its loop *)

Init ==
    /\ store = <<>>
    /\ clock = 0
    /\ running = TRUE
    /\ pc = "loop"
    /\ tickets = <<>>
    /\ idx = 1
    /\ attempt = 0
    /\ sentiment_result = NoData
    /\ processed_count = 0
    /\ error_count = 0
    /\ cur = NoTicket
    /\ waited = 0
    /\ took = 0
    /\ fetch_failed = FALSE
    /\ last_call = NoCall
    /\ peer = NoPeer
    /\ df = NoFrame
    /\ view = NoView
    /\ cleaned = NoText

worker_vars == <<running, pc, tickets, idx, attempt, sentiment_result,
                 processed_count, error_count, cur, waited, took, fetch_failed,
                 last_call>>

-----------------------------------------------------------------------------
(* Ingestion *)

\* collection.add(doc)
Insert(doc) ==
    /\ clock < MaxTickets
    /\ store' = Append(store, doc)
    /\ clock' = clock + 1

\* fetch_new_emails for one UNSEEN mail: extract_email_body strips the body,
\* a mail with an empty body is skipped
fetch_new_emails ==
    /\ \E raw \in EmailBodies :
          LET body == Strip(raw)
          IN  IF IsBlank(body) THEN UNCHANGED <<store, clock>>
              ELSE Insert(EmailDoc(body, clock + 1))
    /\ UNCHANGED worker_vars
    /\ UNCHANGED other_vars

\* handle_contact_form, handle_feedback_form, handle_support_form,
\* handle_custom_form: validate_form_data, then store_form_submission
handle_form ==
    /\ \E form_type \in FormTypes, message \in FormMessages :
          IF ~validate_form_data(message) THEN UNCHANGED <<store, clock>>
          ELSE Insert(FormDoc(message, form_type, clock + 1))
    /\ UNCHANGED worker_vars
    /\ UNCHANGED other_vars

\* another writer of the collection adds a document
foreign_add ==
    /\ \E doc \in ForeignDocs(clock + 1) : Insert(doc)
    /\ UNCHANGED worker_vars
    /\ UNCHANGED other_vars

-----------------------------------------------------------------------------
(* run_continuous *)

\* signal_handler
signal_handler ==
    /\ running
    /\ running' = FALSE
    /\ UNCHANGED <<store, clock, pc, tickets, idx, attempt, sentiment_result,
                   processed_count, error_count, cur, waited, took, fetch_failed,
                   last_call>>
    /\ UNCHANGED other_vars

\* while self.running: false, the loop ends
run_continuous_exit ==
    /\ pc = "loop"
    /\ ~running
    /\ pc' = "stopped"
    /\ UNCHANGED <<store, clock, running, tickets, idx, attempt, sentiment_result,
                   processed_count, error_count, cur, waited, took, fetch_failed,
                   last_call>>
    /\ UNCHANGED other_vars

\* lines 312-315: the head of the for loop of the wait between two batches;
\* time.sleep(1) begins unless the range is used up or self.running is false
run_continuous_sleep ==
    /\ pc = "sleep"
    /\ pc' = IF waited < ProcessingInterval * NapSeconds /\ running
             THEN "nap" ELSE "loop"
    /\ UNCHANGED <<store, clock, running, tickets, idx, attempt, sentiment_result,
                   processed_count, error_count, cur, waited, took, fetch_failed,
                   last_call>>
    /\ UNCHANGED other_vars

\* line 315: time.sleep(1) returns
run_continuous_nap ==
    /\ pc = "nap"
    /\ waited' = waited + NapSeconds
    /\ pc' = "sleep"
    /\ UNCHANGED <<store, clock, running, tickets, idx, attempt, sentiment_result,
                   processed_count, error_count, cur, took, fetch_failed,
                   last_call>>
    /\ UNCHANGED other_vars

\* lines 317-319: time.sleep(60) returns and the while loop goes on
run_continuous_cooldown ==
    /\ pc = "cooldown"
    /\ waited' = CooldownSeconds
    /\ pc' = "loop"
    /\ UNCHANGED <<store, clock, running, tickets, idx, attempt, sentiment_result,
                   processed_count, error_count, cur, took, fetch_failed,
                   last_call>>
    /\ UNCHANGED other_vars

-----------------------------------------------------------------------------
(* process_tickets_batch *)

\* lines 247-254: get_pending_tickets, which answers [] when the query raises
process_tickets_batch ==
    /\ pc = "loop"
    /\ running
    /\ \E query_ok \in BOOLEAN :
          /\ tickets' \in IF query_ok THEN get_pending_tickets(store) ELSE { <<>> }
          /\ fetch_failed' = ~query_ok
    /\ pc' = IF tickets' = <<>> THEN "sleep" ELSE "ticket"
    /\ idx' = 1
    /\ processed_count' = 0
    /\ error_count' = 0
    /\ cur' = NoTicket
    /\ waited' = 0
    /\ took' = 0
    /\ last_call' = NoCall
    /\ UNCHANGED <<store, clock, running, attempt, sentiment_result>>
    /\ UNCHANGED other_vars

\* lines 258-268: an empty message is marked 'error', any other 'processing'
process_ticket_mark ==
    /\ pc = "ticket"
    /\ idx <= Len(tickets)
    /\ LET ticket    == tickets[idx]
           ticket_id == ticket.id
           message   == MessageOf(ticket)
           started   == [NoTicket EXCEPT !.id = ticket_id]
       IN  \E write_ok \in BOOLEAN :
              IF ~write_ok
              THEN /\ pc' = "except"
                   /\ cur' = [started EXCEPT !.wfail = TRUE]
                   /\ UNCHANGED <<store, idx, attempt, error_count>>
              ELSE IF IsBlank(message)
              THEN /\ store' = update_ticket_status(store, ticket_id, "error", NoData)
                   /\ error_count' = error_count + 1
                   /\ idx' = idx + 1
                   /\ pc' = "ticket"
                   /\ cur' = [started EXCEPT !.done = TRUE]
                   /\ UNCHANGED attempt
              ELSE /\ store' = update_ticket_status(store, ticket_id, "processing", NoData)
                   /\ pc' = "analyze"
                   /\ attempt' = 1
                   /\ cur' = started
                   /\ UNCHANGED <<idx, error_count>>
    /\ UNCHANGED <<clock, running, tickets, sentiment_result, processed_count,
                   waited, took, fetch_failed, last_call>>
    /\ UNCHANGED other_vars

\* line 271: one attempt of analyze_sentiment_with_gemini under
\* @retry(stop_max_attempt_number=3): any exception is retried until the
\* third attempt, whose exception reaches the caller (attempt is the
\* decorator's counter, 0 outside the call)
process_ticket_analyze ==
    /\ pc = "analyze"
    /\ LET ticket  == tickets[idx]
           cleaned_message == clean_text(MessageOf(ticket))
       IN  IF Len(cleaned_message) < MinMessageLen
           THEN /\ sentiment_result' = TooShortResult
                /\ pc' = "store"
                /\ attempt' = 0
                /\ UNCHANGED <<cur, last_call, took>>
           ELSE \E resp \in Responses :
                   LET out == AnalyzeOnce(resp)
                   IN  /\ cur' = Invoked(cur, resp)
                       /\ last_call' = Called(ticket.id)
                       /\ IF out.ok
                          THEN /\ sentiment_result' = out.result
                               /\ pc' = "store"
                               /\ attempt' = 0
                               /\ UNCHANGED took
                          ELSE IF RetryOnException(out.exc) /\ ~ShouldStop(attempt)
                          THEN /\ attempt' = attempt + 1
                               /\ took' = BatchSlept(took, RetryWait(attempt))
                               /\ UNCHANGED <<pc, sentiment_result>>
                          ELSE /\ pc' = "except"
                               /\ attempt' = 0
                               /\ UNCHANGED <<sentiment_result, took>>
    /\ UNCHANGED <<store, clock, running, tickets, idx, processed_count, error_count,
                   waited, fetch_failed>>
    /\ UNCHANGED other_vars

\* lines 274-281: the result is written with status 'processed', then
\* time.sleep(2)
process_ticket_store ==
    /\ pc = "store"
    /\ \E write_ok \in BOOLEAN :
          IF write_ok
          THEN /\ store' = update_ticket_status(store, tickets[idx].id, "processed",
                                                sentiment_result)
               /\ processed_count' = processed_count + 1
               /\ idx' = idx + 1
               /\ pc' = "ticket"
               /\ cur' = [cur EXCEPT !.done = TRUE]
               /\ last_call' = Slept(last_call, PacingSeconds)
               /\ took' = BatchSlept(took, PacingSeconds)
          ELSE /\ pc' = "except"
               /\ cur' = [cur EXCEPT !.wfail = TRUE]
               /\ UNCHANGED <<store, processed_count, idx, last_call, took>>
    /\ sentiment_result' = NoData
    /\ attempt' = 0
    /\ UNCHANGED <<clock, running, tickets, error_count, waited, fetch_failed>>
    /\ UNCHANGED other_vars

\* lines 283-289: the handler writes 'error'; an exception of that write is dropped
process_ticket_except ==
    /\ pc = "except"
    /\ \E write_ok \in BOOLEAN :
          /\ store' = IF write_ok
                      THEN update_ticket_status(store, tickets[idx].id, "error", NoData)
                      ELSE store
          /\ cur' = [cur EXCEPT !.done = TRUE, !.wfail = @ \/ ~write_ok]
          /\ pc' = AfterHandler(write_ok)
    /\ error_count' = error_count + 1
    /\ idx' = idx + 1
    /\ UNCHANGED <<clock, running, tickets, attempt, sentiment_result, processed_count,
                   waited, took, fetch_failed, last_call>>
    /\ UNCHANGED other_vars

\* line 291: the for loop is over and process_tickets_batch returns, which ends
\* the life of its locals; an exception raised outside the try of the for loop
\* (MemoryError, a failing log handler) reaches the except clause of line 317
process_tickets_batch_end ==
    /\ pc = "ticket"
    /\ idx > Len(tickets)
    /\ \E raised \in BOOLEAN : pc' = AfterBody(raised)
    /\ tickets' = <<>>
    /\ idx' = 1
    /\ processed_count' = 0
    /\ error_count' = 0
    /\ cur' = NoTicket
    /\ last_call' = NoCall
    /\ UNCHANGED <<store, clock, running, attempt, sentiment_result, waited, took,
                   fetch_failed>>
    /\ UNCHANGED other_vars

-----------------------------------------------------------------------------

Next ==
    \/ fetch_new_emails
    \/ handle_form
    \/ foreign_add
    \/ signal_handler
    \/ run_continuous_exit
    \/ run_continuous_sleep
    \/ run_continuous_nap
    \/ run_continuous_cooldown
    \/ process_tickets_batch
    \/ process_ticket_mark
    \/ process_ticket_analyze
    \/ process_ticket_store
    \/ process_ticket_except
    \/ process_tickets_batch_end

Spec == Init /\ [][Next]_vars

-----------------------------------------------------------------------------
(* The worker started on a backlog: more pending tickets than one batch takes *)

\* the number of tickets in the collection when the worker starts
Backlog == 3

\* the documents the connectors have added at time now
BacklogDocs(now) == { EmailDoc(TextFix, now), FormDoc(TextPadded, "Contact", now) }

InitBacklog ==
    /\ store \in { s \in [1..Backlog -> UNION { BacklogDocs(t) : t \in 1..Backlog }] :
                      \A i \in 1..Backlog : s[i].timestamp = i }
    /\ clock = Backlog
    /\ running = TRUE
    /\ pc = "loop"
    /\ tickets = <<>>
    /\ idx = 1
    /\ attempt = 0
    /\ sentiment_result = NoData
    /\ processed_count = 0
    /\ error_count = 0
    /\ cur = NoTicket
    /\ waited = 0
    /\ took = 0
    /\ fetch_failed = FALSE
    /\ last_call = NoCall
    /\ peer = NoPeer
    /\ df = NoFrame
    /\ view = NoView
    /\ cleaned = NoText

NextBacklog ==
    \/ signal_handler
    \/ run_continuous_exit
    \/ run_continuous_sleep
    \/ run_continuous_nap
    \/ run_continuous_cooldown
    \/ process_tickets_batch
    \/ process_ticket_mark
    \/ process_ticket_analyze
    \/ process_ticket_store
    \/ process_ticket_except
    \/ process_tickets_batch_end

SpecBacklog == InitBacklog /\ [][NextBacklog]_vars

-----------------------------------------------------------------------------
(* Two worker processes on one collection: the second runs the same
   process_tickets_batch, its wait between two batches left out *)

\* the number of tickets in the collection when the two workers start
SharedTickets == 1

\* lines 247-254 in the second worker
peer_process_tickets_batch ==
    /\ peer.pc = "loop"
    /\ \E query_ok \in BOOLEAN :
          \E got \in IF query_ok THEN get_pending_tickets(store) ELSE { <<>> } :
             peer' = IF got = <<>> THEN NoPeer
                     ELSE [NoPeer EXCEPT !.pc = "ticket", !.tickets = got]
    /\ UNCHANGED <<store, clock, worker_vars, df, view, cleaned>>

\* lines 258-268 in the second worker
peer_process_ticket_mark ==
    /\ peer.pc = "ticket"
    /\ peer.idx <= Len(peer.tickets)
    /\ LET ticket    == peer.tickets[peer.idx]
           ticket_id == ticket.id
           started   == [peer EXCEPT !.id = ticket_id, !.n = 0]
       IN  \E write_ok \in BOOLEAN :
              IF ~write_ok
              THEN /\ peer' = [started EXCEPT !.pc = "except"]
                   /\ UNCHANGED store
              ELSE IF IsBlank(MessageOf(ticket))
              THEN /\ store' = update_ticket_status(store, ticket_id, "error", NoData)
                   /\ peer' = [started EXCEPT !.idx = @ + 1]
              ELSE /\ store' = update_ticket_status(store, ticket_id, "processing", NoData)
                   /\ peer' = [started EXCEPT !.pc = "analyze", !.attempt = 1]
    /\ UNCHANGED <<clock, worker_vars, df, view, cleaned>>

\* line 271 in the second worker
peer_process_ticket_analyze ==
    /\ peer.pc = "analyze"
    /\ LET ticket  == peer.tickets[peer.idx]
           cleaned_message == clean_text(MessageOf(ticket))
       IN  IF Len(cleaned_message) < MinMessageLen
           THEN peer' = [peer EXCEPT !.sentiment_result = TooShortResult,
                                     !.pc = "store", !.attempt = 0]
           ELSE \E resp \in Responses :
                   LET out == AnalyzeOnce(resp)
                       called == [peer EXCEPT !.n = @ + 1]
                   IN  peer' = IF out.ok
                               THEN [called EXCEPT !.sentiment_result = out.result,
                                                   !.pc = "store", !.attempt = 0]
                               ELSE IF RetryOnException(out.exc) /\ ~ShouldStop(peer.attempt)
                               THEN [called EXCEPT !.attempt = @ + 1]
                               ELSE [called EXCEPT !.pc = "except", !.attempt = 0]
    /\ UNCHANGED <<store, clock, worker_vars, df, view, cleaned>>

\* lines 274-281 in the second worker
peer_process_ticket_store ==
    /\ peer.pc = "store"
    /\ \E write_ok \in BOOLEAN :
          IF write_ok
          THEN /\ store' = update_ticket_status(store, peer.id, "processed",
                                                peer.sentiment_result)
               /\ peer' = [peer EXCEPT !.pc = "ticket", !.idx = @ + 1,
                                        !.sentiment_result = NoData, !.n = 0, !.id = 0]
          ELSE /\ peer' = [peer EXCEPT !.pc = "except", !.sentiment_result = NoData]
               /\ UNCHANGED store
    /\ UNCHANGED <<clock, worker_vars, df, view, cleaned>>

\* lines 283-289 in the second worker
peer_process_ticket_except ==
    /\ peer.pc = "except"
    /\ \E write_ok \in BOOLEAN :
          /\ store' = IF write_ok
                      THEN update_ticket_status(store, peer.id, "error", NoData)
                      ELSE store
          /\ peer' = [peer EXCEPT !.pc = AfterHandler(write_ok), !.idx = @ + 1,
                                   !.n = 0, !.id = 0]
    /\ UNCHANGED <<clock, worker_vars, df, view, cleaned>>

\* line 291 in the second worker
peer_process_tickets_batch_end ==
    /\ peer.pc = "ticket"
    /\ peer.idx > Len(peer.tickets)
    /\ peer' = NoPeer
    /\ UNCHANGED <<store, clock, worker_vars, df, view, cleaned>>

InitTwoWorkers ==
    /\ store = [i \in 1..SharedTickets |-> EmailDoc(TextFix, i)]
    /\ clock = SharedTickets
    /\ running = TRUE
    /\ pc = "loop"
    /\ tickets = <<>>
    /\ idx = 1
    /\ attempt = 0
    /\ sentiment_result = NoData
    /\ processed_count = 0
    /\ error_count = 0
    /\ cur = NoTicket
    /\ waited = 0
    /\ took = 0
    /\ fetch_failed = FALSE
    /\ last_call = NoCall
    /\ peer = NoPeer
    /\ df = NoFrame
    /\ view = NoView
    /\ cleaned = NoText

NextTwoWorkers ==
    \/ run_continuous_sleep
    \/ run_continuous_nap
    \/ run_continuous_cooldown
    \/ process_tickets_batch
    \/ process_ticket_mark
    \/ process_ticket_analyze
    \/ process_ticket_store
    \/ process_ticket_except
    \/ process_tickets_batch_end
    \/ peer_process_tickets_batch
    \/ peer_process_ticket_mark
    \/ peer_process_ticket_analyze
    \/ peer_process_ticket_store
    \/ peer_process_ticket_except
    \/ peer_process_tickets_batch_end

SpecTwoWorkers == InitTwoWorkers /\ [][NextTwoWorkers]_vars

-----------------------------------------------------------------------------
(* Properties *)

DocIds == 1..Len(store)

\* the ids of the fetched batch
BatchIds(b) == { b[k].id : k \in 1..Len(b) }

\* the iteration of the for loop for ticket i is over and the next has not begun
Returned(i) == cur.id = i /\ cur.done

StatusSteps ==
    { <<"new", "processing">>, <<"new", "error">>,
      <<"processing", "processed">>, <<"processing", "error">> }

\* C1: a step changes the status of no ticket except from new to processing,
\* from processing to processed or error, and (the empty message) from new to
\* error: no ticket goes back to new, processing is entered from new only, and
\* the status of a processed or error ticket never changes.
C1_StatusMonotonic ==
    [][\A i \in DocIds :
          \/ store'[i].status = store[i].status
          \/ <<store[i].status, store'[i].status>> \in StatusSteps]_vars

\* C1 witness: one ticket went new, processing, processed and another one ended
\* in error, with a store write that raised on the way.
C1_Witness ==
    \E i, j \in DocIds :
       /\ store[i].status = "processed"
       /\ store[j].status = "error"
       /\ Returned(j) /\ cur.wfail

ClassificationFields == {"sentiment", "confidence", "keywords"}

\* C2: a document has the fields sentiment, confidence and keywords, all
\* three, when its status is processed, and none of them otherwise.
C2_FieldsIffProcessed ==
    \A i \in DocIds :
       IF store[i].status = "processed"
       THEN ClassificationFields \subseteq DOMAIN store[i]
       ELSE ClassificationFields \cap DOMAIN store[i] = {}

\* C2 witness: a processed ticket with the fields beside a ticket the worker
\* has marked processing or error.
C2_Witness ==
    \E i, j \in DocIds :
       /\ store[i].status = "processed" /\ "keywords" \in DOMAIN store[i]
       /\ store[j].status \in {"processing", "error"}

\* the responses whose confidence float() cannot parse
Unparseable(resp) ==
    /\ resp.kind = "json" /\ resp.value.t = "obj"
    /\ required_keys \subseteq DOMAIN resp.value.o
    /\ ~Float(resp.value.o.confidence).ok
    /\ Float(resp.value.o.confidence).exc \in {"ValueError", "TypeError"}

ValidResult(r) ==
    /\ r.sentiment \in valid_sentiments
    /\ r.confidence >= 0 /\ r.confidence <= 100
    /\ Len(r.keywords) <= 5

\* C3: every processed ticket, and every result the worker is about to
\* write, has a sentiment among the four, a confidence within [0, 1] and at
\* most 5 keywords; a response whose confidence is unparseable gives 0.5.
C3_ProcessedValid ==
    /\ \A i \in DocIds : store[i].status = "processed" => ValidResult(store[i])
    /\ pc = "store" => ValidResult(sentiment_result)
    /\ \A resp \in Responses :
          Unparseable(resp) => AnalyzeOnce(resp).result.confidence = 50

\* C3 witness: a ticket processed from a response with an unknown sentiment,
\* a confidence above 1 and more than 5 keywords.
C3_Witness ==
    \E i \in DocIds :
       /\ store[i].status = "processed"
       /\ store[i].summary = "furious"
       /\ store[i].sentiment = "neutral"
       /\ store[i].confidence = 100
       /\ Len(store[i].keywords) = 5

\* the message of ticket i is empty or made of whitespace only
BlankDoc(i) ==
    LET m == MessageOf(store[i]) IN \A k \in 1..Len(m) : m[k] \in Whitespace

\* C4: a ticket with an empty or whitespace-only message is never processing
\* (so never processed), the classifier is never invoked for it, and when its
\* iteration is over it is in error, unless the writes of 'error' raised.
C4_BlankToError ==
    \A i \in DocIds :
       BlankDoc(i) =>
          /\ store[i].status \in {"new", "error"}
          /\ cur.id = i => cur.n = 0 /\ pc \notin {"analyze", "store"}
          /\ Returned(i) /\ ~cur.wfail => store[i].status = "error"

\* C4 witness: the worker has moved a blank ticket to error.
C4_Witness ==
    \E i \in DocIds : BlankDoc(i) /\ Returned(i) /\ store[i].status = "error"

ShortDoc(i) == Len(clean_text(MessageOf(store[i]))) < MinMessageLen

\* "no!!!!!!!!!!": 12 characters as stored, "no!" (3 characters) normalized
PaddedDoc(i) == MessageOf(store[i]) = TextPadded

HasTooShortResult(d) ==
    /\ d.status = "processed"
    /\ d.sentiment = "neutral"
    /\ d.confidence = 50
    /\ d.keywords = <<>>

\* C5 as claimed: a ticket whose normalized message is shorter than 10
\* characters ends processed with neutral, 0.5 and no keywords, the classifier
\* not having been invoked.
C5_Claimed ==
    \A i \in DocIds :
       ShortDoc(i) /\ Returned(i) /\ ~cur.wfail =>
          cur.n = 0 /\ HasTooShortResult(store[i])

\* C5 amended: for a message that is not blank and whose normalized text is
\* shorter than 10 characters the classifier is never invoked, the result is
\* neutral, 0.5 and no keywords, and the ticket ends processed with exactly
\* these values when its store writes succeed; the length that counts is the
\* normalized one, so this holds for a message of 12 characters that
\* normalizes to 3.
C5_ShortNeutral ==
    \A i \in DocIds :
       (ShortDoc(i) \/ PaddedDoc(i)) /\ ~BlankDoc(i) =>
          /\ cur.id = i => cur.n = 0
          /\ cur.id = i /\ pc = "store" => sentiment_result = TooShortResult
          /\ store[i].status = "processed" => HasTooShortResult(store[i])
          /\ Returned(i) /\ ~cur.wfail => HasTooShortResult(store[i])

\* C5 witness: a message of 12 characters that cleans to 3 ended processed
\* with the fixed result.
C5_Witness ==
    \E i \in DocIds :
       /\ PaddedDoc(i)
       /\ Returned(i)
       /\ HasTooShortResult(store[i])

\* C6: the classifier is invoked at most 3 times for a ticket, and only
\* while the ticket is processing; when every invocation failed with a
\* transport or a JSON decode error there were exactly 3 of them before the
\* handler ran, and the ticket is then in error (the write of 'error' applied).
C6_ThreeAttempts ==
    /\ cur.n <= 3
    /\ pc = "analyze" => store[cur.id].status = "processing"
    /\ cur.n > 0 /\ cur.td /\ (pc = "except" \/ cur.done) => cur.n = 3
    /\ cur.id # 0 /\ cur.done /\ cur.n > 0 /\ cur.td /\ ~cur.wfail
          => store[cur.id].status = "error"

\* C6 witness: three transport or decode failures, the ticket in error.
C6_Witness ==
    /\ cur.id # 0 /\ cur.done /\ cur.td /\ cur.n = 3
    /\ store[cur.id].status = "error"

\* C7 as claimed: after a decoded response that lacks a key the classifier is
\* not invoked again for the ticket, which ends in error.
C7_Claimed ==
    cur.missing =>
       /\ ~cur.again
       /\ cur.id # 0 /\ cur.done /\ ~cur.wfail => store[cur.id].status = "error"

\* C7 amended: a response that lacks a key is a failed attempt like any other:
\* it reaches the handler only as the third attempt, and the ticket ends in
\* error when the attempts are used up and processed when a later attempt
\* succeeded.
C7_MissingKeyRetried ==
    cur.missing =>
       /\ pc = "except" /\ ~cur.wfail => cur.n = 3
       /\ cur.id # 0 /\ cur.done /\ ~cur.wfail =>
             \/ store[cur.id].status = "error" /\ cur.n = 3
             \/ store[cur.id].status = "processed" /\ cur.again

\* C7 witness: the classifier was invoked again after a response that lacked
\* a key, and the ticket ended processed.
C7_Witness ==
    /\ cur.id # 0 /\ cur.done /\ cur.missing /\ cur.again
    /\ store[cur.id].status = "processed"

\* C8 as claimed: when the iteration of a ticket is over, the ticket is not
\* processing, whatever the classifier and the store writes did.
C8_Claimed ==
    cur.id # 0 /\ cur.done => store[cur.id].status # "processing"

InBatch == pc \in {"ticket", "analyze", "store", "except"}

\* C9: the worker leaves a batch only with every fetched ticket iterated
\* and counted, whatever failed on the way: after the handler the for loop
\* goes on with the next ticket.
C9_BatchContinues ==
    [][/\ InBatch /\ pc' \notin {"ticket", "analyze", "store", "except"}
          => idx > Len(tickets) /\ processed_count + error_count = Len(tickets)
       /\ pc = "except" /\ cur' # cur => pc' = "ticket" /\ idx' = idx + 1]_vars

\* C9 witness: the batch is over, its first ticket failed (classifier or
\* store) and its second ticket was processed.
C9_Witness ==
    /\ pc = "ticket" /\ idx > Len(tickets) /\ Len(tickets) = 2
    /\ store[tickets[1].id].status \in {"error", "processing"}
    /\ ~BlankDoc(tickets[1].id)
    /\ store[tickets[2].id].status = "processed"

\* C10: no step changes a document that is in error, fetches it into a
\* batch or invokes the classifier for it.
C10_ErrorTerminal ==
    [][\A i \in DocIds :
          store[i].status = "error" =>
             /\ store'[i] = store[i]
             /\ tickets' # tickets => i \notin BatchIds(tickets')
             /\ cur'.n # cur.n => cur'.id # i]_vars

\* C10 witness: a ticket is in error while the worker handles a later batch,
\* which does not hold it.
C10_Witness ==
    \E i \in DocIds :
       /\ store[i].status = "error"
       /\ pc = "ticket" /\ tickets # <<>>
       /\ i \notin BatchIds(tickets)

-----------------------------------------------------------------------------
(* clean_text on its own: a text put together from a few tokens, cleaned, and
   the result cleaned again *)

\* the most tokens of a text
MaxTokens == 3

\* how often clean_text is applied in turn
MaxPasses == 2

TokenOk   == <<"o","k">>
TokenFrom == <<"F","r","o","m",":">>
TokenSig  == <<"-","-">>
TokenUrl  == <<"h","t","t","p",":","/","/","x">>

Tokens == { TokenOk, TokenFrom, TokenSig, TokenUrl, <<" ">>, <<"\n">>, <<"!">> }

\* the texts of exactly n tokens
RECURSIVE TextsOf(_)
TextsOf(n) ==
    IF n = 0 THEN { <<>> }
    ELSE { t \o rest : t \in Tokens, rest \in TextsOf(n - 1) }

Texts == UNION { TextsOf(n) : n \in 0..MaxTokens }

\* clean_text applied to the text, or to the result of the call before
call_clean_text ==
    /\ Len(cleaned.out) < MaxPasses
    /\ LET arg == IF cleaned.out = <<>> THEN cleaned.text
                  ELSE cleaned.out[Len(cleaned.out)]
       IN  cleaned' = [cleaned EXCEPT !.out = Append(@, clean_text(arg))]
    /\ UNCHANGED <<store, clock, worker_vars, peer, df, view>>

InitCleanText ==
    /\ cleaned \in { [text |-> t, out |-> <<>>] : t \in Texts }
    /\ store = <<>>
    /\ clock = 0
    /\ running = TRUE
    /\ pc = "loop"
    /\ tickets = <<>>
    /\ idx = 1
    /\ attempt = 0
    /\ sentiment_result = NoData
    /\ processed_count = 0
    /\ error_count = 0
    /\ cur = NoTicket
    /\ waited = 0
    /\ took = 0
    /\ fetch_failed = FALSE
    /\ last_call = NoCall
    /\ peer = NoPeer
    /\ df = NoFrame
    /\ view = NoView

NextCleanText == call_clean_text

SpecCleanText == InitCleanText /\ [][NextCleanText]_vars

-----------------------------------------------------------------------------
(* dashboard.py: the render functions on a data frame. The frame is the bag of
   its rows, a row being <<timestamp in hours, sentiment>> or
   <<timestamp in hours, sentiment, source>> *)

\* the most rows of a data frame
MaxRows == 10

\* datetime.now(timezone.utc), in hours: the first hour of day 4
DashboardNow == 96

\* timedelta(hours=24) of render_alerts_section
WindowHours == 24

\* the hours of a day, for timestamp.dt.date
HoursPerDay == 24

\* the timestamps of the rows: one of day 1, one of day 3, within the last 24h
FrameHours == {30, 80}

FrameSentiments == {"anger", "neutral"}

RowKinds == FrameHours \X FrameSentiments

\* the number of rows of frame f whose kind is in K
RECURSIVE Rows(_, _)
Rows(f, K) ==
    IF K = {} THEN 0
    ELSE LET k == CHOOSE x \in K : TRUE IN f[k] + Rows(f, K \ {k})

Frames == { f \in [RowKinds -> 0..MaxRows] : Rows(f, RowKinds) <= MaxRows }

\* df.empty
Empty(f) == Rows(f, DOMAIN f) = 0

\* df['timestamp'].dt.date
DateOf(timestamp) == timestamp \div HoursPerDay

\* df['timestamp'] >= window
Recent(f) == { k \in DOMAIN f : k[1] >= DashboardNow - WindowHours }

\* lines 230-235: st.error, st.warning or st.success; the quotient of two row
\* counts is the float nearest to the fraction, so it is compared as a fraction
AlertLevel(anger, total) ==
    IF total > 0 /\ 10 * anger >= 3 * total THEN "error"
    ELSE IF total > 0 /\ 10 * anger >= 2 * total THEN "warning"
    ELSE "success"

\* what render_alerts_section writes: nothing for an empty frame, else the
\* alert and anger_ratio as the fraction anger / total (0 / 1 when
\* recent_total is 0)
Alerts(f) ==
    IF Empty(f) THEN <<>>
    ELSE LET anger == Rows(f, { k \in Recent(f) : k[2] = "anger" })
             total == Rows(f, Recent(f))
         IN  [level |-> AlertLevel(anger, total),
              anger |-> IF total > 0 THEN anger ELSE 0,
              total |-> IF total > 0 THEN total ELSE 1]

\* what render_sentiment_overview writes: a warning for an empty frame, else
\* the count of each of the four sentiments and the number of rows
Overview(f) ==
    IF Empty(f) THEN [warning |-> "No sentiment data available"]
    ELSE [counts |-> [c \in valid_sentiments |-> Rows(f, { k \in DOMAIN f : k[2] = c })],
          total  |-> Rows(f, DOMAIN f)]

\* `daily` of render_sentiment_trends: groupby(['date', 'sentiment']).size()
\* .unstack(fill_value=0) has a row for each date and a column for each
\* sentiment that occur in the frame
Trends(f) ==
    IF Empty(f) THEN <<>>
    ELSE LET present == { k \in DOMAIN f : f[k] > 0 }
             dates   == { DateOf(k[1]) : k \in present }
             columns == { k[2] : k \in present }
         IN  [d \in dates |->
                [c \in columns |->
                   Rows(f, { k \in present : DateOf(k[1]) = d /\ k[2] = c })]]

dashboard_unchanged ==
    UNCHANGED <<store, clock, worker_vars, peer, df, cleaned>>

render_sentiment_overview ==
    /\ view' = [view EXCEPT !.done = @ \cup {"overview"}, !.overview = Overview(df)]
    /\ dashboard_unchanged

render_sentiment_trends ==
    /\ view' = [view EXCEPT !.done = @ \cup {"trends"}, !.trends = Trends(df)]
    /\ dashboard_unchanged

render_alerts_section ==
    /\ view' = [view EXCEPT !.done = @ \cup {"alerts"}, !.alerts = Alerts(df)]
    /\ dashboard_unchanged

\* lines 300-311 of main: the sections for a frame that is not empty, else
\* st.info
main ==
    /\ view' = IF ~Empty(df)
               THEN [NoView EXCEPT !.done = {"overview", "trends", "alerts"},
                                   !.overview = Overview(df),
                                   !.trends = Trends(df),
                                   !.alerts = Alerts(df)]
               ELSE [NoView EXCEPT !.info = "No data available for the selected filters."]
    /\ dashboard_unchanged

InitDashboard ==
    /\ df \in Frames
    /\ view = NoView
    /\ cleaned = NoText
    /\ store = <<>>
    /\ clock = 0
    /\ running = TRUE
    /\ pc = "loop"
    /\ tickets = <<>>
    /\ idx = 1
    /\ attempt = 0
    /\ sentiment_result = NoData
    /\ processed_count = 0
    /\ error_count = 0
    /\ cur = NoTicket
    /\ waited = 0
    /\ took = 0
    /\ fetch_failed = FALSE
    /\ last_call = NoCall
    /\ peer = NoPeer
    /\ cleaned = NoText

NextDashboard ==
    \/ render_sentiment_overview
    \/ render_sentiment_trends
    \/ render_alerts_section
    \/ main

SpecDashboard == InitDashboard /\ [][NextDashboard]_vars

-----------------------------------------------------------------------------
(* Pacing, the query and the loop of run_continuous *)

\* the step in which the classifier is invoked once more
Invocation == cur'.n = cur.n + 1

\* C11 as claimed: within one batch at least the pacing delay of 2 time units
\* has passed since the last classifier invocation for another ticket whenever
\* the classifier is invoked, whether that ticket ended processed or in error.
C11_Claimed ==
    [][Invocation /\ last_call.id \notin {0, cur.id}
          => last_call.since >= PacingSeconds]_vars

\* the step in which process_tickets_batch calls get_pending_tickets
BatchStarts == pc = "loop" /\ pc' \in {"ticket", "sleep"}

\* C12: get_pending_tickets returns at most batch_size tickets, each of them
\* new in the store at the time of the query; when it returns none, because
\* nothing is pending or because the query raised, the batch writes nothing to
\* the store and never invokes the classifier.
C12_FetchNewAtMostN ==
    [][/\ BatchStarts =>
            /\ Len(tickets') <= BatchSize
            /\ \A k \in 1..Len(tickets') : store[tickets'[k].id].status = "new"
            /\ \A k, l \in 1..Len(tickets') : k # l => tickets'[k].id # tickets'[l].id
            /\ tickets' = <<>> => pc' = "sleep"
       /\ tickets' = <<>> => store' = store /\ cur'.n = 0 /\ last_call' = NoCall]_vars

\* C12 witness: three tickets were pending and the query returned two of them.
C12_Witness ==
    /\ pc = "ticket"
    /\ cur = NoTicket
    /\ Len(tickets) = BatchSize
    /\ Cardinality(PendingIds(store)) > BatchSize

\* C13 as claimed: the tickets of a batch are in the order of their creation
\* and no pending ticket left out of the batch is older than one in it.
C13_Claimed ==
    [][BatchStarts =>
          /\ \A k, l \in 1..Len(tickets') :
                k < l => tickets'[k].timestamp < tickets'[l].timestamp
          /\ \A j \in PendingIds(store) :
                (\A k \in 1..Len(tickets') : tickets'[k].id # j)
                   => \A k \in 1..Len(tickets') : tickets'[k].timestamp < store[j].timestamp]_vars

\* C15 as claimed: when the shutdown signal has come while run_continuous
\* waits, in the wait between two batches or in the cooldown, the wait it is
\* in ends, and self.running is read, within 1 time unit.
C15_Claimed == ~running => SleepInProgress(pc) <= 1

\* C16: run_continuous ends only at the test of its while loop and only after
\* the shutdown signal; after an exception that escaped the body the loop has
\* slept the 60 time units of the cooldown when it is back at that test, and
\* with self.running still true the next thing it does is another batch.
C16_CooldownThenLoop ==
    [][/\ pc' = "stopped" /\ pc # "stopped" => pc = "loop" /\ ~running
       /\ pc = "cooldown" /\ pc' # pc => pc' = "loop" /\ waited' = 60
       /\ pc = "loop" /\ running /\ pc' # pc => BatchStarts]_vars

\* C16 witness: the cooldown is over and the loop, not cancelled, is at its test.
C16_Witness == pc = "loop" /\ running /\ waited = 60

\* C17 as claimed: after a get_pending_tickets whose query raised, the next
\* batch starts only when 60 time units of cooldown have passed.
C17_Claimed ==
    [][BatchStarts /\ fetch_failed => waited >= 60]_vars

-----------------------------------------------------------------------------
(* Two workers *)

\* the worker at position at has written 'processing' for its ticket and has
\* not yet written its result
Holds(at) == at \in {"analyze", "store"}

\* C14 as claimed: no ticket is held, between the write of 'processing' and
\* the write of its result, by the two workers at once, and the classifier is
\* not invoked for one ticket by both of them.
C14_Claimed ==
    cur.id # 0 /\ cur.id = peer.id =>
       /\ ~(Holds(pc) /\ Holds(peer.pc))
       /\ ~(cur.n > 0 /\ peer.n > 0)

-----------------------------------------------------------------------------
(* Dashboard *)

\* the rows of the frame created within the last 24h, and those of anger
WindowRows == IF df = NoFrame THEN 0 ELSE Rows(df, Recent(df))

WindowAnger ==
    IF df = NoFrame THEN 0 ELSE Rows(df, { k \in Recent(df) : k[2] = "anger" })

\* C18 as claimed: once render_alerts_section has run, the page shows the
\* critical alert exactly when anger / window >= 0.30, the elevated one exactly
\* when 0.20 <= anger / window < 0.30 and the stable one otherwise, and for an
\* empty window the stable one with ratio 0.
C18_Claimed ==
    "alerts" \in view.done =>
       /\ view.alerts # <<>>
       /\ view.alerts.level = "error"
             <=> WindowRows > 0 /\ 100 * WindowAnger >= 30 * WindowRows
       /\ view.alerts.level = "warning"
             <=> /\ WindowRows > 0
                 /\ 100 * WindowAnger >= 20 * WindowRows
                 /\ 100 * WindowAnger < 30 * WindowRows
       /\ WindowRows = 0 => view.alerts.level = "success" /\ view.alerts.anger = 0

\* C19 as claimed: for an empty frame render_alerts_section shows the stable
\* level with ratio 0 and render_sentiment_overview an explicit no-data
\* message.
C19_Claimed ==
    Empty(df) =>
       /\ "alerts" \in view.done =>
             /\ view.alerts # <<>>
             /\ view.alerts.level = "success"
             /\ view.alerts.anger = 0
       /\ "overview" \in view.done => "warning" \in DOMAIN view.overview

\* the dates of the rows of the frame
FrameDates == { DateOf(k[1]) : k \in { x \in DOMAIN df : df[x] > 0 } }

\* C20 as claimed: once render_sentiment_trends has run on a frame that is
\* not empty, `daily` has a row for every date from the first to the last
\* date of the frame, each with a count for every sentiment, 0 where no
\* ticket has that date and sentiment.
C20_Claimed ==
    "trends" \in view.done /\ ~Empty(df) =>
       \A d \in 0..(DashboardNow \div HoursPerDay) :
          (\E lo, hi \in FrameDates : lo <= d /\ d <= hi)
             => /\ d \in DOMAIN view.trends
                /\ \A c \in valid_sentiments :
                      /\ c \in DOMAIN view.trends[d]
                      /\ view.trends[d][c] =
                            Rows(df, { k \in DOMAIN df : DateOf(k[1]) = d /\ k[2] = c })

-----------------------------------------------------------------------------
(* What the connectors insert and what the worker may change *)

\* a document a connector has added: the connectors give every ticket a source
ConnectorDoc(d) == "source" \in DOMAIN d

\* the text has a character that is not whitespace
NotBlank(text) == \E k \in 1..Len(text) : text[k] \notin Whitespace

\* C26: a ticket added by the email or a form connector is added with status
\* new and a message that is not empty or whitespace-only, so no submission
\* with an empty message adds a ticket: no ticket of a connector ever has one.
C26_ConnectorsInsertValid ==
    [][/\ Len(store') > Len(store) /\ ConnectorDoc(store'[Len(store')])
             => /\ store'[Len(store')].status = "new"
                /\ NotBlank(store'[Len(store')].message)
       /\ \A i \in DOMAIN store : ConnectorDoc(store[i]) => NotBlank(store[i].message)]_vars

\* C26 witness: the email connector and a form connector have each added a
\* ticket.
C26_Witness ==
    /\ \E i \in DOMAIN store : ConnectorDoc(store[i]) /\ store[i].source = "Email"
    /\ \E i \in DOMAIN store : ConnectorDoc(store[i]) /\ store[i].source # "Email"

\* the fields of a ticket that nothing changes once it is added
CreationFields == {"message", "source", "sender", "timestamp"}

\* the fields update_ticket_status may add to a ticket
WorkerFields == {"processed_timestamp", "sentiment", "summary", "confidence", "keywords"}

\* C27: no step removes a ticket; a step that adds one adds exactly one, is
\* not a step of the worker and leaves every existing ticket as it is; every
\* other step leaves message, source, sender and timestamp of every ticket as
\* they are and adds no field other than processed_timestamp and the
\* classification fields.
C27_Frame ==
    [][/\ Len(store') >= Len(store)
       /\ Len(store') > Len(store)
             => /\ Len(store') = Len(store) + 1
                /\ \A i \in DOMAIN store : store'[i] = store[i]
                /\ UNCHANGED <<pc, tickets, idx, cur>>
       /\ \A i \in DOMAIN store :
             /\ \A f \in CreationFields :
                   /\ f \in DOMAIN store'[i] <=> f \in DOMAIN store[i]
                   /\ f \in DOMAIN store[i] => store'[i][f] = store[i][f]
             /\ DOMAIN store[i] \subseteq DOMAIN store'[i]
             /\ DOMAIN store'[i] \ DOMAIN store[i] \subseteq WorkerFields]_vars

\* C27 witness: a ticket of a connector is processed, its message as added,
\* and a second ticket has been added since.
C27_Witness ==
    /\ Len(store) = 2
    /\ store[1].status = "processed"
    /\ ConnectorDoc(store[1])
    /\ store[1].message = TextFix

\* C28 as claimed: a ticket has a processed_timestamp if and only if its
\* status is processed or error.
C28_Claimed ==
    \A i \in DOMAIN store :
       "processed_timestamp" \in DOMAIN store[i]
          <=> store[i].status \in {"processed", "error"}

\* C29 as claimed: at most one ticket has status processing.
C29_Claimed ==
    Cardinality({ i \in DOMAIN store : store[i].status = "processing" }) <= 1

-----------------------------------------------------------------------------
(* The interval between two batches *)

\* C30 as claimed: when the batch before took less than the interval and
\* run_continuous has waited since, without cooldown, the batch starts exactly
\* one interval after the start of the batch before: the time the batch took
\* and the wait add up to the interval.
C30_Claimed ==
    [][BatchStarts /\ waited > 0 /\ waited < 60 /\ took < ProcessingInterval
          => took + waited = ProcessingInterval]_vars

-----------------------------------------------------------------------------
(* clean_text *)

\* C24 as claimed: clean_text applied to its own result gives that result.
C24_Claimed ==
    Len(cleaned.out) = 2 => cleaned.out[2] = cleaned.out[1]

\* sub occurs in s
Contains(s, sub) ==
    \E k \in 0..(Len(s) - Len(sub)) : SubSeq(s, k + 1, k + Len(sub)) = sub

\* the lines of s
RECURSIVE LinesOf(_)
LinesOf(s) ==
    LET line == FirstLine(s)
        rest == Drop(s, Len(line))
    IN  IF rest = <<>> THEN { line } ELSE { line } \cup LinesOf(Tail(rest))

\* a line that starts with From:, To:, Subject:, Date: or --
RemovedLine(line) ==
    \E p \in HeaderPrefixes \cup SignaturePrefixes : StartsWith(line, p)

\* C25 as claimed: the cleaned text has no URL; it has no From: and no -- when
\* these occur in the text only in lines that start with a header prefix or
\* with --; and the word of a line that does not start so is still in it.
C25_Claimed ==
    Len(cleaned.out) >= 1 =>
       LET out  == cleaned.out[1]
           kept == { l \in LinesOf(cleaned.text) : ~RemovedLine(l) }
       IN  /\ ~Contains(out, <<"h","t","t","p",":","/","/">>)
           /\ \A p \in {TokenFrom, TokenSig} :
                 (\A l \in kept : ~Contains(l, p)) => ~Contains(out, p)
           /\ (\E l \in kept : Contains(l, TokenOk)) => Contains(out, TokenOk)

-----------------------------------------------------------------------------
(* dashboard.py: apply_filters and the source counts of
   render_detailed_analysis, on frames of a few rows with a source *)

\* the most rows of a frame that is filtered
MaxFilterRows == 3

\* timestamps at and one hour before the bounds of "Last 24 hours" and of
\* "Last 3 days"
FilterHours == {23, 24, 71, 72}

FilterSources == {"Email", "Form_Contact"}

FilterKinds == FilterHours \X FrameSentiments \X FilterSources

FilterFrames ==
    { [k \in FilterKinds |-> IF k \in S THEN 1 ELSE 0] :
         S \in { T \in SUBSET FilterKinds : Cardinality(T) <= MaxFilterRows } }

\* the choices of the "Time Range" select box
TimeRanges == {"Last 24 hours", "Last 3 days", "Last week", "Last month"}

\* lines 140-147: the timedelta of the time range, in hours
RangeHours(time_range) ==
    IF time_range = "Last 24 hours" THEN 24
    ELSE IF time_range = "Last 3 days" THEN 3 * HoursPerDay
    ELSE IF time_range = "Last week" THEN 7 * HoursPerDay
    ELSE 30 * HoursPerDay

\* mutant: an empty filter excludes every row
Passes_strict(value, filter) == value \in filter

\* lines 151-154: `if filter:` then isin(filter)
Passes(value, filter) == filter = {} \/ value \in filter

\* apply_filters
apply_filters(f, time_range, sentiment_filter, source_filter) ==
    IF Empty(f) THEN f
    ELSE LET cutoff == DashboardNow - RangeHours(time_range)
         IN  [k \in DOMAIN f |->
                IF /\ k[1] >= cutoff
                   /\ Passes(k[2], sentiment_filter)
                   /\ Passes(k[3], source_filter)
                THEN f[k] ELSE 0]

\* the sources of the rows of f
SourcesOf(f) == { k[3] : k \in { x \in DOMAIN f : f[x] > 0 } }

\* the number of rows of f with the source
SourceCount(f, source) == Rows(f, { k \in DOMAIN f : k[3] = source })

\* df['source'].value_counts(): the sources with their counts, the counts
\* descending; pandas gives no order to sources of equal count
value_counts(f) ==
    { order \in Arrangements(SourcesOf(f), Cardinality(SourcesOf(f))) :
         \A i, j \in 1..Len(order) :
            i < j => SourceCount(f, order[i]) >= SourceCount(f, order[j]) }

\* the filters taken in the sidebar
SentimentFilters == { {}, {"anger"}, {"anger", "neutral"} }

SourceFilters == { {}, {"Email"}, {"Email", "Form_Contact"} }

\* line 297 of main: filtered_df = apply_filters(...)
call_apply_filters ==
    /\ \E time_range \in TimeRanges, sentiment_filter \in SentimentFilters,
          source_filter \in SourceFilters :
          view' = [NoView EXCEPT !.filtered =
                      [time_range |-> time_range,
                       sentiment_filter |-> sentiment_filter,
                       source_filter |-> source_filter,
                       frame |-> apply_filters(df, time_range, sentiment_filter,
                                               source_filter)]]
    /\ dashboard_unchanged

\* lines 264-273: the bars of "Messages by Source", in the order of
\* source_counts
render_detailed_analysis ==
    /\ ~Empty(df)
    /\ \E order \in value_counts(df) :
          view' = [NoView EXCEPT !.sources =
                      [k \in 1..Len(order) |->
                         [source |-> order[k], count |-> SourceCount(df, order[k])]]]
    /\ dashboard_unchanged

InitFilters ==
    /\ df \in FilterFrames
    /\ view = NoView
    /\ store = <<>>
    /\ clock = 0
    /\ running = TRUE
    /\ pc = "loop"
    /\ tickets = <<>>
    /\ idx = 1
    /\ attempt = 0
    /\ sentiment_result = NoData
    /\ processed_count = 0
    /\ error_count = 0
    /\ cur = NoTicket
    /\ waited = 0
    /\ took = 0
    /\ fetch_failed = FALSE
    /\ last_call = NoCall
    /\ peer = NoPeer
    /\ cleaned = NoText

NextFilters ==
    \/ call_apply_filters
    \/ render_detailed_analysis

SpecFilters == InitFilters /\ [][NextFilters]_vars

-----------------------------------------------------------------------------
(* dashboard.py: get_system_stats on a collection whose documents have any
   status, or none *)

\* the most documents of the collection
MaxDocs == 3

\* the statuses of the documents: the four of the worker, one no code of the
\* repository writes, and the name of the fifth key of `stats`
DocStatuses == {"new", "processing", "processed", "error", "archived", "total"}

\* the documents of the collection at time now
StatDocs(now) ==
    { [timestamp |-> now, status |-> st] : st \in DocStatuses }
       \cup { [timestamp |-> now] }

\* dict.fromkeys(['total', 'processed', 'new', 'processing', 'error'], 0)
NoStats == [k \in {"total", "processed", "new", "processing", "error"} |-> 0]

\* lines 102-106: the loop over the documents, from document i on
RECURSIVE CountStats(_, _, _)
CountStats(s, i, stats) ==
    IF i > Len(s) THEN stats
    ELSE LET status == IF "status" \in DOMAIN s[i] THEN s[i].status ELSE "unknown"
             counted == IF status \in DOMAIN stats
                        THEN [stats EXCEPT ![status] = @ + 1] ELSE stats
         IN  CountStats(s, i + 1, [counted EXCEPT !["total"] = @ + 1])

\* get_system_stats
get_system_stats(s) == CountStats(s, 1, NoStats)

call_get_system_stats ==
    /\ view' = [NoView EXCEPT !.stats = get_system_stats(store)]
    /\ dashboard_unchanged

InitStats ==
    /\ \E n \in 0..MaxDocs :
          store \in { s \in [1..n -> UNION { StatDocs(t) : t \in 1..MaxDocs }] :
                          \A i \in 1..n : s[i].timestamp = i }
    /\ df = NoFrame
    /\ view = NoView
    /\ clock = 0
    /\ running = TRUE
    /\ pc = "loop"
    /\ tickets = <<>>
    /\ idx = 1
    /\ attempt = 0
    /\ sentiment_result = NoData
    /\ processed_count = 0
    /\ error_count = 0
    /\ cur = NoTicket
    /\ waited = 0
    /\ took = 0
    /\ fetch_failed = FALSE
    /\ last_call = NoCall
    /\ peer = NoPeer
    /\ cleaned = NoText

NextStats == call_get_system_stats

SpecStats == InitStats /\ [][NextStats]_vars

-----------------------------------------------------------------------------
(* Filters, source counts and system stats *)

\* alphabetical position of the sources
SourceRank == [Email |-> 1, Form_Contact |-> 2]

\* C21 as claimed: the source counts are in descending order of the count and
\* sources of equal count in ascending order of their names.
C21_Claimed ==
    view.sources # <<>> =>
       \A i, j \in 1..Len(view.sources) :
          i < j =>
             \/ view.sources[i].count > view.sources[j].count
             \/ /\ view.sources[i].count = view.sources[j].count
                /\ SourceRank[view.sources[i].source] < SourceRank[view.sources[j].source]

\* the number of documents of the store with the status
WithStatus(st) ==
    Cardinality({ i \in DOMAIN store : "status" \in DOMAIN store[i] /\ store[i].status = st })

\* C22 as claimed: total is the number of documents, each of the four buckets
\* the number of documents with that status, and the four buckets together are
\* at most total, whatever the status of a document, or none.
C22_Claimed ==
    view.stats # <<>> =>
       /\ view.stats["total"] = Len(store)
       /\ \A st \in {"new", "processing", "processed", "error"} :
             view.stats[st] = WithStatus(st)
       /\ view.stats["new"] + view.stats["processing"] + view.stats["processed"]
             + view.stats["error"] <= view.stats["total"]

\* the hours of the ranges 24h, 3d, 7d and 30d
ClaimedRange ==
    [x \in TimeRanges |->
       CASE x = "Last 24 hours" -> 24
         [] x = "Last 3 days"   -> 72
         [] x = "Last week"     -> 168
         [] x = "Last month"    -> 720]

\* C23: apply_filters keeps exactly the rows whose timestamp is at or after
\* now - range and that pass the sentiment and the source filter, an empty
\* filter letting every row pass.
C23_FilterExact ==
    view.filtered # <<>> =>
       LET a == view.filtered
       IN  \A k \in DOMAIN df :
              a.frame[k] =
                 IF /\ k[1] >= DashboardNow - ClaimedRange[a.time_range]
                    /\ (a.sentiment_filter = {} \/ k[2] \in a.sentiment_filter)
                    /\ (a.source_filter = {} \/ k[3] \in a.source_filter)
                 THEN df[k] ELSE 0

\* C23 witness: with no sentiment filter and the sources limited to Email, of
\* three rows the one exactly 24 hours old is kept, the one an hour older and
\* the one of another source are dropped.
C23_Witness ==
    /\ view.filtered # <<>>
    /\ view.filtered.time_range = "Last 24 hours"
    /\ view.filtered.sentiment_filter = {}
    /\ view.filtered.source_filter = {"Email"}
    /\ df[<<72, "anger", "Email">>] = 1
    /\ view.filtered.frame[<<72, "anger", "Email">>] = 1
    /\ df[<<71, "anger", "Email">>] = 1
    /\ view.filtered.frame[<<71, "anger", "Email">>] = 0
    /\ df[<<72, "neutral", "Form_Contact">>] = 1
    /\ view.filtered.frame[<<72, "neutral", "Form_Contact">>] = 0

-----------------------------------------------------------------------------
(* The counts of a batch *)

\* the for loop of process_tickets_batch is over, line 291 is reached
BatchOver == pc = "ticket" /\ tickets # <<>> /\ idx > Len(tickets)

\* the number of tickets of the batch whose document has the status
BatchWithStatus(st) ==
    Cardinality({ k \in 1..Len(tickets) : store[tickets[k].id].status = st })

\* C31 as claimed: when the batch ends, processed_count and error_count
\* together are the number of tickets fetched, processed_count is the number
\* of them with status processed and error_count the number with status error.
C31_Claimed ==
    BatchOver =>
       /\ processed_count + error_count = Len(tickets)
       /\ processed_count = BatchWithStatus("processed")
       /\ error_count = BatchWithStatus("error")

-----------------------------------------------------------------------------
(* The worker that keeps running on the tickets the connectors have inserted:
   no signal stops it, every step it can take is taken in the end, and no
   store operation fails for ever *)

\* the number of tickets the connectors have inserted
LiveTickets == 2

InitLive ==
    /\ store \in { s \in [1..LiveTickets -> UNION { BacklogDocs(t) : t \in 1..LiveTickets }] :
                      \A i \in 1..LiveTickets : s[i].timestamp = i }
    /\ clock = LiveTickets
    /\ running = TRUE
    /\ pc = "loop"
    /\ tickets = <<>>
    /\ idx = 1
    /\ attempt = 0
    /\ sentiment_result = NoData
    /\ processed_count = 0
    /\ error_count = 0
    /\ cur = NoTicket
    /\ waited = 0
    /\ took = 0
    /\ fetch_failed = FALSE
    /\ last_call = NoCall
    /\ peer = NoPeer
    /\ df = NoFrame
    /\ view = NoView
    /\ cleaned = NoText

NextLive ==
    \/ run_continuous_sleep
    \/ run_continuous_nap
    \/ run_continuous_cooldown
    \/ process_tickets_batch
    \/ process_ticket_mark
    \/ process_ticket_analyze
    \/ process_ticket_store
    \/ process_ticket_except
    \/ process_tickets_batch_end

\* the steps of the worker but the classifier call
WorkerSteps ==
    \/ run_continuous_sleep
    \/ run_continuous_nap
    \/ run_continuous_cooldown
    \/ process_tickets_batch
    \/ process_ticket_mark
    \/ process_ticket_store
    \/ process_ticket_except
    \/ process_tickets_batch_end

\* the worker goes on (time.sleep returns, a store operation returns or
\* raises), and a store operation that is tried again and again succeeds in
\* the end: the query of line 204 and the writes of lines 265, 268, 274, 286
FairLive ==
    /\ WF_vars(WorkerSteps)
    /\ SF_vars(process_tickets_batch /\ ~fetch_failed')
    /\ SF_vars(process_ticket_mark /\ pc' # "except")
    /\ SF_vars(process_ticket_store /\ pc' # "except")
    /\ SF_vars(process_ticket_except /\ store' # store)

SpecLive == InitLive /\ [][NextLive]_vars /\ FairLive

\* every classifier call returns or raises: the worker does not stay in
\* analyze_sentiment_with_gemini
ClassifierReturns == (pc = "analyze") ~> (pc # "analyze")

\* C32 as claimed: when every classifier call returns or raises, every ticket
\* that is new is processed or in error at some later time, also when store
\* writes fail now and then.
C32_Claimed ==
    ClassifierReturns =>
       \A i \in 1..LiveTickets :
          (store[i].status = "new") ~> (store[i].status \in {"processed", "error"})

-----------------------------------------------------------------------------
(* dashboard.py: one run of main on the loaded frame, with the filters taken
   in the sidebar *)

\* lines 297-311 of main: what the page shows for the filters
Page(f, time_range, sentiment_filter, source_filter) ==
    LET filtered_df == apply_filters(f, time_range, sentiment_filter, source_filter)
        chosen      == [time_range |-> time_range,
                        sentiment_filter |-> sentiment_filter,
                        source_filter |-> source_filter,
                        frame |-> filtered_df]
    IN  IF ~Empty(filtered_df)
        THEN [NoView EXCEPT !.done = {"overview", "trends", "alerts"},
                            !.overview = Overview(filtered_df),
                            !.trends = Trends(filtered_df),
                            !.alerts = Alerts(filtered_df),
                            !.filtered = chosen]
        ELSE [NoView EXCEPT !.info = "No data available for the selected filters.",
                            !.filtered = chosen]

\* lines 291-311 of main
main_run ==
    /\ \E time_range \in TimeRanges, sentiment_filter \in SentimentFilters,
          source_filter \in SourceFilters :
          view' = Page(df, time_range, sentiment_filter, source_filter)
    /\ dashboard_unchanged

InitPage ==
    /\ df \in FilterFrames
    /\ view = NoView
    /\ store = <<>>
    /\ clock = 0
    /\ running = TRUE
    /\ pc = "loop"
    /\ tickets = <<>>
    /\ idx = 1
    /\ attempt = 0
    /\ sentiment_result = NoData
    /\ processed_count = 0
    /\ error_count = 0
    /\ cur = NoTicket
    /\ waited = 0
    /\ took = 0
    /\ fetch_failed = FALSE
    /\ last_call = NoCall
    /\ peer = NoPeer
    /\ cleaned = NoText

NextPage == main_run

SpecPage == InitPage /\ [][NextPage]_vars

\* two runs show the same alert: none, or the same level and the same ratio
\* anger / total
SameReport(a, b) ==
    IF a = <<>> \/ b = <<>> THEN a = b
    ELSE a.level = b.level /\ a.anger * b.total = b.anger * a.total

\* C33 as claimed: the alert level and the anger ratio a run of main shows
\* are those any run on the same frame shows, whatever the time range, the
\* sentiment filter and the source filter of the two runs.
C33_Claimed ==
    view.filtered # <<>> =>
       \A time_range \in TimeRanges, sentiment_filter \in SentimentFilters,
          source_filter \in SourceFilters :
          SameReport(Page(df, time_range, sentiment_filter, source_filter).alerts,
                     view.alerts)

====
